---- MODULE Spec2Model ----
(***************************************************************************)
(* Token acquisition and refresh lifecycle of the Diyanet Awqat Salah      *)
(* client (auth.go): tokenSource.Token, tokenSource.requestAccessToken and *)
(* getExpirationTime, behind oauth2.ReuseTokenSourceWithExpiry.            *)
(*                                                                         *)
(* Strings whose shape the code inspects (access tokens) are sequences of  *)
(* one-character strings; decoded payloads are sequences of byte values.   *)
(* Instants are records [era, sec, nsec]: era "year1" counts from Go's     *)
(* zero time.Time (January 1, year 1 UTC), era "unix" from the Unix epoch. *)
(* The two origins are 62135596800 s apart, more than any offset the model *)
(* uses, so every "year1" instant precedes every "unix" instant.           *)
(***************************************************************************)
EXTENDS Integers, Sequences, FiniteSets, TLC

(***************************************************************************)
(* time.Time and time.Duration                                             *)
(***************************************************************************)
Second == 1
Minute == 60 * Second
NanosPerSecond == 1000000000

ZeroTime == [era |-> "year1", sec |-> 0, nsec |-> 0]

Unix(s) == [era |-> "unix", sec |-> s, nsec |-> 0]

\* t.Add(d) for a duration of dsec seconds and dnsec nanoseconds.
Normalized(era, sec, n) ==
    IF n >= NanosPerSecond
    THEN [era |-> era, sec |-> sec + 1, nsec |-> n - NanosPerSecond]
    ELSE IF n < 0
    THEN [era |-> era, sec |-> sec - 1, nsec |-> n + NanosPerSecond]
    ELSE [era |-> era, sec |-> sec, nsec |-> n]

Add(t, dsec, dnsec) == Normalized(t.era, t.sec + dsec, t.nsec + dnsec)

EraRank(t) == IF t.era = "year1" THEN 0 ELSE 1

Before(a, b) ==
    \/ EraRank(a) < EraRank(b)
    \/ EraRank(a) = EraRank(b) /\ a.sec < b.sec
    \/ EraRank(a) = EraRank(b) /\ a.sec = b.sec /\ a.nsec < b.nsec

After(a, b) == Before(b, a)

IsZero(t) == t = ZeroTime

\* t.Round(0) strips the monotonic clock reading and leaves the wall time.
Round0(t) == t

(***************************************************************************)
(* auth.go package variables                                               *)
(***************************************************************************)
earlyExpiry == 15 * Minute

\* init(): past = past.Add(earlyExpiry + 1)
past == Add(ZeroTime, earlyExpiry, 1)

\* the literal 10*time.Second of the refresh guard in tokenSource.Token
refreshGuard == 10 * Second

(***************************************************************************)
(* strings.Cut                                                             *)
(***************************************************************************)
RECURSIVE IndexFrom(_, _, _)
IndexFrom(s, sep, i) ==
    IF i > Len(s) THEN 0
    ELSE IF s[i] = sep THEN i
    ELSE IndexFrom(s, sep, i + 1)

CutAt(s, i) ==
    IF i = 0
    THEN [before |-> s, after |-> <<>>, found |-> FALSE]
    ELSE [before |-> SubSeq(s, 1, i - 1),
          after  |-> SubSeq(s, i + 1, Len(s)),
          found  |-> TRUE]

Cut(s, sep) == CutAt(s, IndexFrom(s, sep, 1))

(***************************************************************************)
(* base64.RawURLEncoding.DecodeString                                      *)
(***************************************************************************)
B64Alphabet ==
    << "A", "B", "C", "D", "E", "F", "G", "H", "I", "J", "K", "L", "M",
       "N", "O", "P", "Q", "R", "S", "T", "U", "V", "W", "X", "Y", "Z",
       "a", "b", "c", "d", "e", "f", "g", "h", "i", "j", "k", "l", "m",
       "n", "o", "p", "q", "r", "s", "t", "u", "v", "w", "x", "y", "z",
       "0", "1", "2", "3", "4", "5", "6", "7", "8", "9", "-", "_" >>

IsB64(c) == \E i \in 1..64 : B64Alphabet[i] = c

B64Value(c) == (CHOOSE i \in 1..64 : B64Alphabet[i] = c) - 1

\* the decoder skips carriage returns and line feeds
RECURSIVE StripNewlines(_)
StripNewlines(s) ==
    IF s = <<>> THEN <<>>
    ELSE IF Head(s) \in {"\n", "\r"} THEN StripNewlines(Tail(s))
    ELSE <<Head(s)>> \o StripNewlines(Tail(s))

RECURSIVE DecodeQuanta(_)
\* the bytes of a quantum of 2, 3 or 4 six-bit values
Quantum2(a, b) == << a * 4 + b \div 16 >>
Quantum3(a, b, c) == << a * 4 + b \div 16, (b % 16) * 16 + c \div 4 >>
Quantum4(a, b, c, d) ==
    << a * 4 + b \div 16, (b % 16) * 16 + c \div 4, (c % 4) * 64 + d >>

DecodeQuanta(s) ==
    IF Len(s) = 0 THEN <<>>
    ELSE IF Len(s) = 2 THEN Quantum2(B64Value(s[1]), B64Value(s[2]))
    ELSE IF Len(s) = 3
    THEN Quantum3(B64Value(s[1]), B64Value(s[2]), B64Value(s[3]))
    ELSE Quantum4(B64Value(s[1]), B64Value(s[2]), B64Value(s[3]),
                  B64Value(s[4]))
         \o DecodeQuanta(SubSeq(s, 5, Len(s)))

DecodeStripped(s) ==
    IF \/ \E i \in 1..Len(s) : ~IsB64(s[i])
       \/ Len(s) % 4 = 1
    THEN [err |-> TRUE, bytes |-> <<>>]
    ELSE [err |-> FALSE, bytes |-> DecodeQuanta(s)]

DecodeString(str) == DecodeStripped(StripNewlines(str))

(***************************************************************************)
(* json.Unmarshal(decoded, &claims) with claims struct{ Exp int64 "exp" }. *)
(* The JSON text is cut into tokens, which drive a decoder state machine.   *)
(* Integer literals are evaluated up to MaxDigits digits, which covers     *)
(* every payload the model feeds in.                                       *)
(***************************************************************************)
MaxDigits == 9

IsWS(c) == c \in {32, 9, 10, 13}
IsDigit(c) == c \in 48..57
IsHex(c) == c \in (48..57) \cup (65..70) \cup (97..102)

RECURSIVE DigitsEnd(_, _)
DigitsEnd(b, i) ==
    IF i <= Len(b) /\ IsDigit(b[i]) THEN DigitsEnd(b, i + 1) ELSE i

RECURSIVE DigitsValue(_, _, _)
DigitsValue(b, from, to) ==
    IF from > to THEN 0
    ELSE DigitsValue(b, from, to - 1) * 10 + (b[to] - 48)

\* index of the closing quote of the string whose first character is at j,
\* 0 when the string is not terminated or not valid
RECURSIVE StringEnd(_, _)
StringEnd(b, j) ==
    IF j > Len(b) THEN 0
    ELSE IF b[j] = 34 THEN j
    ELSE IF b[j] < 32 THEN 0
    ELSE IF b[j] = 92
    THEN IF j + 1 > Len(b) THEN 0
         ELSE IF b[j + 1] \in {34, 92, 47, 98, 102, 110, 114, 116}
         THEN StringEnd(b, j + 2)
         ELSE IF /\ b[j + 1] = 117
                 /\ j + 5 <= Len(b)
                 /\ \A k \in (j + 2)..(j + 5) : IsHex(b[k])
         THEN StringEnd(b, j + 6)
         ELSE 0
    ELSE StringEnd(b, j + 1)

\* a lexical token; next is the index after it
Tok(t, n) == [t |-> t, next |-> n, raw |-> <<>>, isInt |-> FALSE, int |-> 0]

HasAt(b, i, lit) ==
    /\ i + Len(lit) - 1 <= Len(b)
    /\ \A k \in 1..Len(lit) : b[i + k - 1] = lit[k]

StringToken(b, i, e) ==
    IF e = 0 THEN Tok("bad", i)
    ELSE [Tok("string", e + 1) EXCEPT !.raw = SubSeq(b, i + 1, e - 1)]

StringAt(b, i) == StringToken(b, i, StringEnd(b, i + 1))

\* A number runs from i: digits from d0 to before d1, a fraction to before
\* f1, an exponent whose digits run from e0 to before e1 (f1 = d1 without a
\* fraction, e0 = e1 = f1 without an exponent).
NumberToken(b, i, d0, d1, f1, e0, e1) ==
    IF \/ d1 = d0
       \/ f1 = d1 + 1
       \/ e0 > f1 /\ e1 = e0
    THEN Tok("bad", i)
    ELSE IF f1 = d1 /\ e0 = f1 /\ d1 - d0 <= MaxDigits
    THEN [Tok("number", e1) EXCEPT
             !.isInt = TRUE,
             !.int = IF d0 > i THEN 0 - DigitsValue(b, d0, d1 - 1)
                     ELSE DigitsValue(b, d0, d1 - 1)]
    ELSE Tok("number", e1)

NumberExponent(b, i, d0, d1, f1, e0) ==
    NumberToken(b, i, d0, d1, f1, e0,
                IF e0 > f1 THEN DigitsEnd(b, e0) ELSE f1)

NumberFraction(b, i, d0, d1, f1) ==
    NumberExponent(b, i, d0, d1, f1,
        IF f1 <= Len(b) /\ b[f1] \in {101, 69}
        THEN IF f1 + 1 <= Len(b) /\ b[f1 + 1] \in {43, 45}
             THEN f1 + 2 ELSE f1 + 1
        ELSE f1)

NumberInteger(b, i, d0, d1) ==
    NumberFraction(b, i, d0, d1,
        IF d1 <= Len(b) /\ b[d1] = 46 THEN DigitsEnd(b, d1 + 1) ELSE d1)

NumberDigits(b, i, d0) ==
    NumberInteger(b, i, d0,
        IF d0 <= Len(b) /\ b[d0] = 48 THEN d0 + 1 ELSE DigitsEnd(b, d0))

NumberAt(b, i) == NumberDigits(b, i, IF b[i] = 45 THEN i + 1 ELSE i)

\* the token that starts at index i
TokenAt(b, i) ==
    IF IsWS(b[i]) THEN Tok("ws", i + 1)
    ELSE IF b[i] = 123 THEN Tok("{", i + 1)
    ELSE IF b[i] = 125 THEN Tok("}", i + 1)
    ELSE IF b[i] = 91 THEN Tok("[", i + 1)
    ELSE IF b[i] = 93 THEN Tok("]", i + 1)
    ELSE IF b[i] = 58 THEN Tok(":", i + 1)
    ELSE IF b[i] = 44 THEN Tok(",", i + 1)
    ELSE IF b[i] = 34 THEN StringAt(b, i)
    ELSE IF b[i] = 45 \/ IsDigit(b[i]) THEN NumberAt(b, i)
    ELSE IF HasAt(b, i, <<116, 114, 117, 101>>) THEN Tok("true", i + 4)
    ELSE IF HasAt(b, i, <<102, 97, 108, 115, 101>>) THEN Tok("false", i + 5)
    ELSE IF HasAt(b, i, <<110, 117, 108, 108>>) THEN Tok("null", i + 4)
    ELSE Tok("bad", i)

RECURSIVE Lex(_, _, _)

LexToken(b, acc, tok) ==
    IF tok.t = "bad" THEN Append(acc, tok)
    ELSE Lex(b, tok.next, IF tok.t = "ws" THEN acc ELSE Append(acc, tok))

Lex(b, i, acc) ==
    IF i > Len(b) THEN acc ELSE LexToken(b, acc, TokenAt(b, i))

\* the struct tag "exp" matches a key case-insensitively
MatchesExp(key) ==
    /\ Len(key) = 3
    /\ key[1] \in {101, 69}
    /\ key[2] \in {120, 88}
    /\ key[3] \in {112, 80}

\* The decoder's state while it reads the tokens: what it expects next
\* (phase), the open objects and arrays (stack), the key of the member of
\* the outermost object being read, the kind of the outermost value, and
\* the claims struct with the first type error saved.
DecodeStart ==
    [ok |-> TRUE, phase |-> "value", stack |-> <<>>, key |-> <<>>,
     topKind |-> "", err |-> FALSE, Exp |-> 0]

KindOf(tok) ==
    IF tok.t = "{" THEN "object" ELSE IF tok.t = "[" THEN "array" ELSE tok.t

\* what is expected after a value has ended
AfterValue(stack) ==
    IF stack = <<>> THEN "end"
    ELSE IF stack[Len(stack)] = "o" THEN "objCommaOrEnd"
    ELSE "arrCommaOrEnd"

Pop(stack) == SubSeq(stack, 1, Len(stack) - 1)

\* a value begins with tok
\* the value that begins with tok is noted: as the outermost value, or as
\* the exp member of the outermost object
Noted(st, tok) ==
    IF st.stack = <<>> THEN [st EXCEPT !.topKind = KindOf(tok)]
    ELSE IF \/ Len(st.stack) # 1
            \/ st.stack[1] # "o"
            \/ ~MatchesExp(st.key)
            \/ tok.t = "null"
    THEN st
    ELSE IF tok.t = "number" /\ tok.isInt THEN [st EXCEPT !.Exp = tok.int]
    ELSE [st EXCEPT !.err = TRUE]

Entered(s1, stack, tok) ==
    IF tok.t = "{"
    THEN [s1 EXCEPT !.stack = Append(stack, "o"), !.phase = "objKeyOrEnd"]
    ELSE IF tok.t = "["
    THEN [s1 EXCEPT !.stack = Append(stack, "a"), !.phase = "arrValueOrEnd"]
    ELSE IF tok.t \in {"string", "number", "true", "false", "null"}
    THEN [s1 EXCEPT !.phase = AfterValue(stack)]
    ELSE [s1 EXCEPT !.ok = FALSE]

ValueStart(st, tok) == Entered(Noted(st, tok), st.stack, tok)

Close(st) ==
    [st EXCEPT !.stack = Pop(st.stack), !.phase = AfterValue(Pop(st.stack))]

DecodeStep(st, tok) ==
    IF ~st.ok \/ tok.t = "bad" THEN [st EXCEPT !.ok = FALSE]
    ELSE IF st.phase = "value" THEN ValueStart(st, tok)
    ELSE IF st.phase = "arrValueOrEnd"
    THEN IF tok.t = "]" THEN Close(st) ELSE ValueStart(st, tok)
    ELSE IF st.phase \in {"objKeyOrEnd", "objKey"}
    THEN IF tok.t = "string"
         THEN [st EXCEPT !.phase = "colon",
                         !.key = IF Len(st.stack) = 1 THEN tok.raw ELSE st.key]
         ELSE IF tok.t = "}" /\ st.phase = "objKeyOrEnd" THEN Close(st)
         ELSE [st EXCEPT !.ok = FALSE]
    ELSE IF st.phase = "colon"
    THEN IF tok.t = ":" THEN [st EXCEPT !.phase = "value"]
         ELSE [st EXCEPT !.ok = FALSE]
    ELSE IF st.phase = "objCommaOrEnd"
    THEN IF tok.t = "," THEN [st EXCEPT !.phase = "objKey"]
         ELSE IF tok.t = "}" THEN Close(st)
         ELSE [st EXCEPT !.ok = FALSE]
    ELSE IF st.phase = "arrCommaOrEnd"
    THEN IF tok.t = "," THEN [st EXCEPT !.phase = "value"]
         ELSE IF tok.t = "]" THEN Close(st)
         ELSE [st EXCEPT !.ok = FALSE]
    ELSE [st EXCEPT !.ok = FALSE]

RECURSIVE DecodeTokens(_, _, _)
DecodeTokens(toks, i, st) ==
    IF i > Len(toks) THEN st
    ELSE DecodeTokens(toks, i + 1, DecodeStep(st, toks[i]))

\* a syntax error, or a outermost value that is neither null nor an object,
\* or an exp member of the wrong type is an error; null leaves claims alone
Decoded(st) ==
    IF ~st.ok \/ st.phase # "end" THEN [err |-> TRUE, Exp |-> 0]
    ELSE IF st.topKind = "null" THEN [err |-> FALSE, Exp |-> 0]
    ELSE IF st.topKind = "object" THEN [err |-> st.err, Exp |-> st.Exp]
    ELSE [err |-> TRUE, Exp |-> 0]

Unmarshal(b) == Decoded(DecodeTokens(Lex(b, 1, <<>>), 1, DecodeStart))

(***************************************************************************)
(* getExpirationTime                                                       *)
(***************************************************************************)
tokenDelim == "."

\* the steps of getExpirationTime up to the decoded claims; failed is set
\* where the function gives up and returns past
GaveUp == [failed |-> TRUE, Exp |-> 0]

Unmarshalled(claims) ==
    IF claims.err THEN GaveUp ELSE [failed |-> FALSE, Exp |-> claims.Exp]

Base64Decoded(decoded) ==
    IF decoded.err THEN GaveUp ELSE Unmarshalled(Unmarshal(decoded.bytes))

SecondCut(c2) ==
    IF ~c2.found THEN GaveUp ELSE Base64Decoded(DecodeString(c2.before))

FirstCut(c1) ==
    IF ~c1.found THEN GaveUp ELSE SecondCut(Cut(c1.after, tokenDelim))

TokenClaims(token) == FirstCut(Cut(token, tokenDelim))

ExpirationOf(c) == IF c.failed THEN past ELSE Unix(c.Exp)

\* variant: the safety margin taken off the claim inside getExpirationTime
ExpirationEarly(c) ==
    IF c.failed THEN past ELSE Add(Unix(c.Exp), 0 - earlyExpiry, 0)

getExpirationTimeEarly(token) == ExpirationEarly(TokenClaims(token))

\* variant: the sentinel left at the zero time (init() not run)
ExpirationZeroPast(c) == IF c.failed THEN ZeroTime ELSE Unix(c.Exp)

getExpirationTimeZeroPast(token) == ExpirationZeroPast(TokenClaims(token))

getExpirationTime(token) == ExpirationOf(TokenClaims(token))

(***************************************************************************)
(* The remote service mints access tokens header.payload.signature whose   *)
(* payload is the unpadded URL-safe base64 of the JSON text {"exp":T}.     *)
(* EncodeToString is the inverse direction of DecodeString.                *)
(***************************************************************************)
RECURSIVE DecimalBytes(_)
DecimalBytes(n) ==
    IF n < 10 THEN << 48 + n >>
    ELSE Append(DecimalBytes(n \div 10), 48 + (n % 10))

ExpPayload(T) ==
    << 123, 34, 101, 120, 112, 34, 58 >> \o DecimalBytes(T) \o << 125 >>

B64Char(v) == B64Alphabet[v + 1]

RECURSIVE EncodeToString(_)
EncodeToString(b) ==
    IF Len(b) = 0 THEN <<>>
    ELSE IF Len(b) = 1
    THEN << B64Char(b[1] \div 4), B64Char((b[1] % 4) * 16) >>
    ELSE IF Len(b) = 2
    THEN << B64Char(b[1] \div 4),
            B64Char((b[1] % 4) * 16 + b[2] \div 16),
            B64Char((b[2] % 16) * 4) >>
    ELSE << B64Char(b[1] \div 4),
            B64Char((b[1] % 4) * 16 + b[2] \div 16),
            B64Char((b[2] % 16) * 4 + b[3] \div 64),
            B64Char(b[3] % 64) >> \o EncodeToString(SubSeq(b, 4, Len(b)))

SignedToken(payload) == << "h", "." >> \o EncodeToString(payload) \o << ".", "s" >>

MintToken(T) == SignedToken(ExpPayload(T))

(***************************************************************************)
(* oauth2.Token and its validity test as used by the reuse token source    *)
(***************************************************************************)
\* oauth2's defaultExpiryDelta, used when a token carries no expiryDelta
defaultExpiryDelta == 10 * Second

NilToken ==
    [nil |-> TRUE, AccessToken |-> <<>>, TokenType |-> "",
     Expiry |-> ZeroTime, expiryDelta |-> 0]

\* (*oauth2.Token).expired at clock reading at (Unix seconds)
expired(tok, at) ==
    IF IsZero(tok.Expiry) THEN FALSE
    ELSE Before(Add(Round0(tok.Expiry),
                    IF tok.expiryDelta # 0 THEN 0 - tok.expiryDelta
                    ELSE 0 - defaultExpiryDelta,
                    0),
                Unix(at))

\* variant: valid only strictly before the margin begins
ValidStrict(tok, at) ==
    /\ ~tok.nil
    /\ tok.AccessToken # <<>>
    /\ After(Add(Round0(tok.Expiry), 0 - tok.expiryDelta, 0), Unix(at))

\* (*oauth2.Token).Valid
Valid(tok, at) ==
    /\ ~tok.nil
    /\ tok.AccessToken # <<>>
    /\ ~expired(tok, at)

(***************************************************************************)
(* Errors: which fmt.Errorf produced them and what it interpolated         *)
(***************************************************************************)
retrieveTokenErrorPrefix == "diyanet: unable to retrieve access token: "
refreshTokenErrorPrefix == "diyanet: unable to refresh access token: "

NoErr == [kind |-> "nil", prefix |-> "", text |-> "", code |-> 0]

Err(k, p, txt, c) == [kind |-> k, prefix |-> p, text |-> txt, code |-> c]

(***************************************************************************)
(* What the network and the remote service may answer                      *)
(***************************************************************************)
\* exp claims of the tokens the service hands out
ServerExps == {920, 1800}

TokOneDot == << "h", ".", "s" >>

\* payload {"sub":"u"}: valid JSON without an exp member
TokNoExp == SignedToken(<< 123, 34, 115, 117, 98, 34, 58, 34, 117, 34, 125 >>)

\* a refresh token with an invalid percent-escape: url.Parse rejects the
\* refresh URL built from it and http.NewRequest fails
BadEscapeTicket == "%zz"

\* (accessToken, refreshToken) pairs of the data member of an envelope
Grants ==
    {[AccessToken |-> MintToken(920), RefreshToken |-> "r1"],
     [AccessToken |-> MintToken(1800), RefreshToken |-> "r2"]}
    \cup {[AccessToken |-> MintToken(920), RefreshToken |-> BadEscapeTicket],
          [AccessToken |-> MintToken(920), RefreshToken |-> ""],
          [AccessToken |-> TokOneDot, RefreshToken |-> "r1"],
          [AccessToken |-> TokNoExp, RefreshToken |-> "r1"],
          [AccessToken |-> <<>>, RefreshToken |-> ""]}

Messages == {"token expired", "invalid credentials"}

NoData == [AccessToken |-> <<>>, RefreshToken |-> ""]

\* bodies that are not JSON at all, or a Result envelope with success=false
\* (one of them with a data member all the same)
ErrorBodies ==
    {[decodes |-> FALSE, Ok |-> FALSE, Error |-> "", Data |-> NoData]}
    \cup {[decodes |-> TRUE, Ok |-> FALSE, Error |-> m, Data |-> NoData] :
             m \in Messages}
    \cup {[decodes |-> TRUE, Ok |-> FALSE, Error |-> "token expired",
           Data |-> [AccessToken |-> MintToken(1800), RefreshToken |-> "r2"]]}

\* Result envelopes with success=true
GrantBodies ==
    {[decodes |-> TRUE, Ok |-> TRUE, Error |-> "", Data |-> g] : g \in Grants}

Bodies == ErrorBodies \cup GrantBodies

\* no response: client.Do failed, or was never reached
NoResponse ==
    [failed |-> TRUE, StatusCode |-> 0,
     Body |-> [decodes |-> FALSE, Ok |-> FALSE, Error |-> "", Data |-> NoData]]

\* client.Do either fails (network error, cancelled context) or yields a
\* response with a status code and a body
Responses ==
    {NoResponse}
    \cup {[failed |-> FALSE, StatusCode |-> 200, Body |-> b] : b \in Bodies}
    \cup {[failed |-> FALSE, StatusCode |-> 401, Body |-> b] :
             b \in ErrorBodies \cup
                   {g \in GrantBodies : g.Data.RefreshToken = "r1"}}

(***************************************************************************)
(* Requests                                                                *)
(***************************************************************************)
apiURLLogin == [endpoint |-> "Auth/Login", arg |-> ""]

\* fmt.Sprintf(apiURLRefreshToken, ticket)
apiURLRefreshToken(ticket) == [endpoint |-> "Auth/RefreshToken/", arg |-> ticket]

\* url.Parse inside http.NewRequest, as far as the ticket can break it
URLParses(url) == url.arg # BadEscapeTicket

\* getExpirationTime on the access tokens the service can hand out, computed
\* once per token
KnownTokens ==
    {b.Data.AccessToken : b \in Bodies}

ExpirationTimes == [tok \in KnownTokens |-> getExpirationTime(tok)]

expirationTime(tok) == ExpirationTimes[tok]

(***************************************************************************)
(* tokenSource.requestAccessToken                                          *)
(* store is the pair of tokenSource fields; the result carries the fields  *)
(* as the call leaves them, and whether client.Do was reached.             *)
(***************************************************************************)
\* the shape of a requestAccessToken result
Outcome(token, err, store, sent) ==
    [token |-> token, err |-> err, store |-> store, sent |-> sent]

\* variant: only the ticket is stored (as by the fixed-delta token source)
GrantedTicketOnly(data) ==
    Outcome([nil |-> FALSE, AccessToken |-> data.AccessToken,
             TokenType |-> "Bearer",
             Expiry |-> expirationTime(data.AccessToken), expiryDelta |-> 0],
            NoErr,
            [accessToken |-> <<>>, refreshToken |-> data.RefreshToken],
            TRUE)

Granted(data) ==
    Outcome([nil |-> FALSE, AccessToken |-> data.AccessToken,
             TokenType |-> "Bearer",
             Expiry |-> expirationTime(data.AccessToken), expiryDelta |-> 0],
            NoErr,
            [accessToken |-> data.AccessToken,
             refreshToken |-> data.RefreshToken],
            TRUE)

\* variant: the fields are stored as soon as the 2xx body decodes, before
\* the success flag is looked at
requestAccessTokenEagerStore(store, url, resp, errorPrefix) ==
    LET fail(e) == Outcome(NilToken, e, store, URLParses(url))
        body == resp.Body
    IN  IF ~URLParses(url) THEN fail(Err("request", "", "", 0))
        ELSE IF resp.failed THEN fail(Err("network", errorPrefix, "", 0))
        ELSE IF resp.StatusCode < 200 \/ resp.StatusCode >= 300
        THEN IF body.decodes /\ ~body.Ok
             THEN fail(Err("api", errorPrefix, body.Error, 0))
             ELSE fail(Err("status", errorPrefix, "", resp.StatusCode))
        ELSE IF ~body.decodes THEN fail(Err("decode", errorPrefix, "", 0))
        ELSE IF ~body.Ok
        THEN Outcome(NilToken, Err("api", errorPrefix, body.Error, 0),
                     [accessToken |-> body.Data.AccessToken,
                      refreshToken |-> body.Data.RefreshToken], TRUE)
        ELSE Granted(body.Data)

\* variant: a non-2xx body is not looked at (as before the envelope of an
\* error response was decoded)
requestAccessTokenStatusOnly(store, url, resp, errorPrefix) ==
    LET fail(e) == Outcome(NilToken, e, store, URLParses(url))
        body == resp.Body
    IN  IF ~URLParses(url) THEN fail(Err("request", "", "", 0))
        ELSE IF resp.failed THEN fail(Err("network", errorPrefix, "", 0))
        ELSE IF resp.StatusCode < 200 \/ resp.StatusCode >= 300
        THEN fail(Err("status", errorPrefix, "", resp.StatusCode))
        ELSE IF ~body.decodes THEN fail(Err("decode", errorPrefix, "", 0))
        ELSE IF ~body.Ok THEN fail(Err("api", errorPrefix, body.Error, 0))
        ELSE Granted(body.Data)

\* variant: the error of client.Do is dropped
requestAccessTokenDropDoErr(store, url, resp, errorPrefix) ==
    LET fail(e) == Outcome(NilToken, e, store, URLParses(url))
        body == resp.Body
    IN  IF ~URLParses(url) THEN fail(Err("request", "", "", 0))
        ELSE IF resp.failed THEN fail(NoErr)
        ELSE IF resp.StatusCode < 200 \/ resp.StatusCode >= 300
        THEN IF body.decodes /\ ~body.Ok
             THEN fail(Err("api", errorPrefix, body.Error, 0))
             ELSE fail(Err("status", errorPrefix, "", resp.StatusCode))
        ELSE IF ~body.decodes THEN fail(Err("decode", errorPrefix, "", 0))
        ELSE IF ~body.Ok THEN fail(Err("api", errorPrefix, body.Error, 0))
        ELSE Granted(body.Data)

requestAccessToken(store, url, resp, errorPrefix) ==
    LET fail(e) == Outcome(NilToken, e, store, URLParses(url))
        body == resp.Body
    IN  IF ~URLParses(url) THEN fail(Err("request", "", "", 0))
        ELSE IF resp.failed THEN fail(Err("network", errorPrefix, "", 0))
        ELSE IF resp.StatusCode < 200 \/ resp.StatusCode >= 300
        THEN IF body.decodes /\ ~body.Ok
             THEN fail(Err("api", errorPrefix, body.Error, 0))
             ELSE fail(Err("status", errorPrefix, "", resp.StatusCode))
        ELSE IF ~body.decodes THEN fail(Err("decode", errorPrefix, "", 0))
        ELSE IF ~body.Ok THEN fail(Err("api", errorPrefix, body.Error, 0))
        ELSE Granted(body.Data)

\* the record kept of one requestAccessToken call
CallRecord(method, url, header, resp, store, r) ==
    [method |-> method,
     url    |-> url,
     header |-> header,
     sent   |-> r.sent,
     resp   |-> IF r.sent THEN resp ELSE NoResponse,
     token  |-> r.token,
     err    |-> r.err,
     before |-> store,
     after  |-> r.store]

IsRefresh(c) == c.url.endpoint = "Auth/RefreshToken/"
IsLogin(c) == c.url.endpoint = "Auth/Login"

(***************************************************************************)
(* State                                                                   *)
(***************************************************************************)
\* clock readings at which the program is observed
Instants == {0, 20, 21, 909, 910}

\* the invocation counter saturates here
MaxInvocations == 3

(***************************************************************************)
(* Inputs for getExpirationTime on its own: each carries the way it was    *)
(* built, so that its shape is known without running the function.         *)
(***************************************************************************)
MaxTokenLen == 4

\* largest exp claim of the minted tokens fed to getExpirationTime alone
MaxExp == 30

InputAlphabet == {".", "!", "e", "3", "0"}

ShortStrings == UNION {[1..n -> InputAlphabet] : n \in 0..MaxTokenLen}

Dots(str) == Cardinality({i \in 1..Len(str) : str[i] = "."})

\* segments that are not unpadded URL-safe base64: a character outside the
\* alphabet, padding, a blank, or a length of 4k+1
NotBase64Segments ==
    { << "!" >>, << "e" >>, << "e", "3", "0", "=" >>, << "e", "3", " ", "0" >>,
      << "e", "3", "0", "+", "/" >>, << "e", "3", "0", "e", "3" >> }

\* payloads that are not JSON texts:
\*   exp=920
\*   {
\*   {"exp":920
\*   {"exp":920}}
\*   {'exp':1}
\*   {"exp":01}
NotJSONPayloads ==
    { << 101, 120, 112, 61, 57, 50, 48 >>,
      << 123 >>,
      << 123, 34, 101, 120, 112, 34, 58, 57, 50, 48 >>,
      << 123, 34, 101, 120, 112, 34, 58, 57, 50, 48, 125, 125 >>,
      << 123, 39, 101, 120, 112, 39, 58, 49, 125 >>,
      << 123, 34, 101, 120, 112, 34, 58, 48, 49, 125 >> }

\* JSON objects whose exp member is not an integer:
\*   {"exp":"x"}
\*   {"exp":"920"}
\*   {"exp":true}
\*   {"exp":1.5}
\*   {"exp":[1]}
\*   {"exp":{}}
\*   {"exp":1e3}
NonNumericExpPayloads ==
    { << 123, 34, 101, 120, 112, 34, 58, 34, 120, 34, 125 >>,
      << 123, 34, 101, 120, 112, 34, 58, 34, 57, 50, 48, 34, 125 >>,
      << 123, 34, 101, 120, 112, 34, 58, 116, 114, 117, 101, 125 >>,
      << 123, 34, 101, 120, 112, 34, 58, 49, 46, 53, 125 >>,
      << 123, 34, 101, 120, 112, 34, 58, 91, 49, 93, 125 >>,
      << 123, 34, 101, 120, 112, 34, 58, 123, 125, 125 >>,
      << 123, 34, 101, 120, 112, 34, 58, 49, 101, 51, 125 >> }

\* JSON objects without an exp member:
\*   {}
\*   {"sub":"u"}
\*   {"iat":5}
\*   { "sub" : {"exp":1} }
NoExpPayloads ==
    { << 123, 125 >>,
      << 123, 34, 115, 117, 98, 34, 58, 34, 117, 34, 125 >>,
      << 123, 34, 105, 97, 116, 34, 58, 53, 125 >>,
      << 123, 32, 34, 115, 117, 98, 34, 32, 58, 32, 123, 34, 101, 120, 112, 34, 58, 49, 125, 32, 125 >> }

\* the JSON null, and an exp member that is null:
\*   null
\*   {"exp":null}
NullExpPayloads ==
    { << 110, 117, 108, 108 >>,
      << 123, 34, 101, 120, 112, 34, 58, 110, 117, 108, 108, 125 >> }

\* other spellings of an integer exp member:
\*   {"EXP":7}
\*   {"exp":7,"exp":9}
\*    {"exp" : -5 } 
\*   {"sub":"u","exp":12}
OddExpPayloads ==
    { << 123, 34, 69, 88, 80, 34, 58, 55, 125 >>,
      << 123, 34, 101, 120, 112, 34, 58, 55, 44, 34, 101, 120, 112, 34, 58, 57, 125 >>,
      << 32, 123, 34, 101, 120, 112, 34, 32, 58, 32, 45, 53, 32, 125, 32 >>,
      << 123, 34, 115, 117, 98, 34, 58, 34, 117, 34, 44, 34, 101, 120, 112, 34, 58, 49, 50, 125 >> }

Input(k, str) == [kind |-> k, str |-> str]

TokenInputs ==
    {Input(IF Dots(x) = 0 THEN "nodelim"
           ELSE IF Dots(x) = 1 THEN "onedelim" ELSE "short", x) :
        x \in ShortStrings}
    \cup {Input("notbase64", << "h", "." >> \o x \o << ".", "s" >>) :
             x \in NotBase64Segments}
    \cup {Input("notjson", SignedToken(x)) : x \in NotJSONPayloads}
    \cup {Input("nonnumeric", SignedToken(x)) : x \in NonNumericExpPayloads}
    \cup {Input("noexp", SignedToken(x)) : x \in NoExpPayloads}
    \cup {Input("nullexp", SignedToken(x)) : x \in NullExpPayloads}
    \cup {Input("oddexp", SignedToken(x)) : x \in OddExpPayloads}
    \cup {Input("minted", MintToken(T)) : T \in 0..MaxExp}

NoInput == Input("none", <<>>)

NoOutput == [done |-> FALSE, time |-> ZeroTime]

VARIABLES
    now,          \* time.Now(), Unix seconds
    accessToken,  \* tokenSource.accessToken
    refreshToken, \* tokenSource.refreshToken
    cached,       \* reuseTokenSource.t
    invocations,  \* GetToken calls made on the token source so far
    calls,        \* requestAccessToken calls of the GetToken that just returned
    ret,          \* what that GetToken returned
    pre,          \* now, tokenSource fields and cache when that GetToken began
    tokenIn,      \* an access token string handed to getExpirationTime alone
    expiryOut,    \* what getExpirationTime made of tokenIn
    mu,           \* reuseTokenSource.mu: the goroutine holding it
    callers,      \* the goroutines calling GetToken on the one token source
    granted,      \* the data of the last response tokens were taken from
    access,       \* the Resource Accessor call that just returned
    conf          \* the Config of the fixed-delta token source

concVars == << mu, callers, granted >>

vars == << now, accessToken, refreshToken, cached, invocations, calls, ret, pre,
           tokenIn, expiryOut, concVars, access, conf >>

NoRet == [returned |-> FALSE, token |-> NilToken, err |-> NoErr]

NoPre == [now |-> 0, accessToken |-> <<>>, refreshToken |-> "",
          cached |-> NilToken]

\* the goroutines that share the token source of one Client
Callers == {"A", "B"}

Unlocked == "unlocked"

\* what a GetToken handed to its caller: a token, or an error
Got(token, err) == [returned |-> TRUE, ok |-> err = NoErr, token |-> token]

NoGot == [returned |-> FALSE, ok |-> FALSE, token |-> NilToken]

\* a goroutine outside GetToken
Idle ==
    [pc |-> "idle", sawValid |-> FALSE, overlapped |-> FALSE,
     awaited |-> NoGot, entered |-> 0, got |-> NoGot, ownCalls |-> 0]

\* no goroutine is inside GetToken
InitConc ==
    /\ mu = Unlocked
    /\ callers = [p \in Callers |-> Idle]
    /\ granted = NoData

\* the zero value of an accessor's result type
ZeroData == ""

NoHeader == [name |-> "", value |-> <<>>]

\* Config.AccessTokenExpiryDelta left at its zero value
NoConfig == [AccessTokenExpiryDelta |-> 0]

\* no Resource Accessor has been called
NoAccess ==
    [called |-> FALSE, op |-> "", sent |-> FALSE, url |-> "",
     requested |-> 0, named |-> 0,
     header |-> NoHeader, resp |-> NoResponse, data |-> ZeroData,
     err |-> NoErr, cause |-> NoErr]

\* Config.TokenSource: a fresh tokenSource behind
\* oauth2.ReuseTokenSourceWithExpiry(nil, source, earlyExpiry)
Init ==
    /\ now = 0
    /\ accessToken = <<>>
    /\ refreshToken = ""
    /\ cached = NilToken
    /\ invocations = 0
    /\ calls = <<>>
    /\ ret = NoRet
    /\ pre = NoPre
    /\ tokenIn = NoInput
    /\ expiryOut = NoOutput
    /\ InitConc
    /\ access = NoAccess
    /\ conf = NoConfig

Store == [accessToken |-> accessToken, refreshToken |-> refreshToken]

(***************************************************************************)
(* tokenSource.Token, run under the lock of the reuse token source.  A     *)
(* response is drawn where client.Do is reached.                           *)
(***************************************************************************)
\* variant: refresh whenever a ticket is held, whatever the stored token's age
shouldRefreshUnguarded(store, at) ==
    /\ store.accessToken # <<>>
    /\ store.refreshToken # ""

\* the guard of the refresh branch
shouldRefresh(store, at) ==
    /\ store.accessToken # <<>>
    /\ store.refreshToken # ""
    /\ After(Add(Round0(expirationTime(store.accessToken)),
                 0 - refreshGuard, 0),
             Unix(at))

\* variant: the token is handed to the caller but not kept
ReturnUncached(token, err, store, cs) ==
    /\ calls' = cs
    /\ accessToken' = store.accessToken
    /\ refreshToken' = store.refreshToken
    /\ ret' = [returned |-> TRUE,
               token |-> IF err # NoErr THEN NilToken
                         ELSE [token EXCEPT !.expiryDelta = earlyExpiry],
               err |-> err]
    /\ UNCHANGED cached

\* tokenSource.Token returns (token, err) to reuseTokenSource.Token, which
\* caches a token it gets and hands the outcome to its caller
Return(token, err, store, cs) ==
    /\ calls' = cs
    /\ accessToken' = store.accessToken
    /\ refreshToken' = store.refreshToken
    /\ IF err # NoErr
       THEN /\ ret' = [returned |-> TRUE, token |-> NilToken, err |-> err]
            /\ UNCHANGED cached
       ELSE /\ ret' = [returned |-> TRUE,
                       token |-> [token EXCEPT !.expiryDelta = earlyExpiry],
                       err |-> NoErr]
            /\ cached' = [token EXCEPT !.expiryDelta = earlyExpiry]

LoginHeader == [name |-> "Content-Type", value |-> << "application/json" >>]

\* the outcome l of the login request joins the calls cs and is returned
LoginReturn(store, cs, resp, l) ==
    Return(l.token, l.err, l.store,
           Append(cs, CallRecord("POST", apiURLLogin, LoginHeader, resp,
                                 store, l)))

\* variant: a failed login is tried once more
LoginRetried(store, cs, resp, l) ==
    IF l.err = NoErr
    THEN LoginReturn(store, cs, resp, l)
    ELSE \E again \in Responses :
            LoginReturn(store,
                        Append(cs, CallRecord("POST", apiURLLogin, LoginHeader,
                                              resp, store, l)),
                        again,
                        requestAccessToken(store, apiURLLogin, again,
                                           retrieveTokenErrorPrefix))

LoginWithRetry(store, cs) ==
    \E resp \in Responses :
        LoginRetried(store, cs, resp,
                     requestAccessToken(store, apiURLLogin, resp,
                                        retrieveTokenErrorPrefix))

\* the POST to Auth/Login, after the calls cs already made
Login(store, cs) ==
    \E resp \in Responses :
        LoginReturn(store, cs, resp,
                    requestAccessToken(store, apiURLLogin, resp,
                                       retrieveTokenErrorPrefix))

\* variant: no Authorization header on the refresh request (as in the
\* fixed-delta token source)
RefreshHeaderMissing(store) == [name |-> "", value |-> <<>>]

RefreshHeader(store) ==
    [name |-> "Authorization", value |-> << "Bearer " >> \o store.accessToken]

\* variant: the refresh error is returned instead of logged
RefreshReturned(store, url, resp, r) ==
    Return(r.token, r.err, r.store,
           << CallRecord("GET", url, RefreshHeader(store), resp, store, r) >>)

RefreshToNoFallback(store, url) ==
    \E resp \in (IF URLParses(url) THEN Responses ELSE {NoResponse}) :
        RefreshReturned(store, url, resp,
                        requestAccessToken(store, url, resp,
                                           refreshTokenErrorPrefix))

RefreshNoFallback(store) ==
    RefreshToNoFallback(store, apiURLRefreshToken(store.refreshToken))

\* the outcome r of the refresh request, recorded as the call c: a token is
\* returned, an error is logged and the login follows
RefreshOutcome(r, c) ==
    IF r.err = NoErr
    THEN Return(r.token, NoErr, r.store, << c >>)
    ELSE Login(r.store, << c >>)

RefreshRequested(store, url, resp, r) ==
    RefreshOutcome(r, CallRecord("GET", url, RefreshHeader(store), resp,
                                 store, r))

\* the GET to Auth/RefreshToken/<ticket>; its error is logged, not returned
RefreshTo(store, url) ==
    \E resp \in (IF URLParses(url) THEN Responses ELSE {NoResponse}) :
        RefreshRequested(store, url, resp,
                         requestAccessToken(store, url, resp,
                                            refreshTokenErrorPrefix))

Refresh(store) == RefreshTo(store, apiURLRefreshToken(store.refreshToken))

tokenSourceToken ==
    IF shouldRefresh(Store, now)
    THEN Refresh(Store)
    ELSE Login(Store, <<>>)

\* reuseTokenSource.Token, called by one goroutine at a time
reuseTokenSourceToken ==
    /\ pre' = [now |-> now, accessToken |-> accessToken,
               refreshToken |-> refreshToken, cached |-> cached]
    /\ invocations' = IF invocations < MaxInvocations
                      THEN invocations + 1 ELSE invocations
    /\ now' = now
    /\ UNCHANGED << tokenIn, expiryOut, concVars, conf >>
    /\ IF Valid(cached, now)
       THEN /\ ret' = [returned |-> TRUE, token |-> cached, err |-> NoErr]
            /\ calls' = <<>>
            /\ UNCHANGED << accessToken, refreshToken, cached >>
       ELSE tokenSourceToken

\* the GetToken() of the token source
GetToken ==
    /\ reuseTokenSourceToken
    /\ UNCHANGED access

\* the clock moves on between invocations
Tick(to) ==
    /\ to > now
    /\ now' = to
    /\ calls' = <<>>
    /\ ret' = NoRet
    /\ pre' = NoPre
    /\ access' = NoAccess
    /\ UNCHANGED << accessToken, refreshToken, cached, invocations >>
    /\ UNCHANGED << tokenIn, expiryOut, concVars, conf >>

Next ==
    \/ GetToken
    \/ \E to \in Instants : Tick(to)

Spec == Init /\ [][Next]_vars

(***************************************************************************)
(* Goroutines sharing one token source.  reuseTokenSource.Token locks mu   *)
(* in its first statement and unlocks it on return, so mu is held while    *)
(* tokenSource.Token has its requests in flight.                           *)
(***************************************************************************)
\* variant: the token source is used without the lock
MuFreeAlways == TRUE

\* mu.Lock() goes through
MuFree == mu = Unlocked

\* the early-expiry margin before the token's expiry has begun at instant at
WithinMargin(tok, at) ==
    Before(Add(tok.Expiry, 0 - earlyExpiry, 0), Unix(at))

\* the cached token is good to hand out at instant at
Fresh(tok, at) == ~tok.nil /\ ~WithinMargin(tok, at)

\* goroutine p, in the state c, has locked mu: the cached token is returned
\* if valid, otherwise tokenSource.Token is called
Enter(p, c) ==
    IF Valid(cached, now)
    THEN /\ callers' = [callers EXCEPT ![p] =
                            [c EXCEPT !.pc = "done", !.entered = now,
                                      !.got = Got(cached, NoErr)]]
         /\ UNCHANGED mu
    ELSE /\ callers' = [callers EXCEPT ![p] =
                            [c EXCEPT !.pc = "inflight", !.entered = now]]
         /\ mu' = p

\* goroutine p, outside GetToken, calls it and reaches mu.Lock()
Arrive(p) ==
    /\ callers[p].pc \in {"idle", "done"}
    /\ invocations < MaxInvocations
    /\ invocations' = invocations + 1
    /\ IF MuFree
       THEN Enter(p, [Idle EXCEPT !.sawValid = Fresh(cached, now)])
       ELSE /\ callers' = [callers EXCEPT ![p] =
                               [Idle EXCEPT !.pc = "blocked",
                                            !.overlapped = TRUE,
                                            !.sawValid = Fresh(cached, now)]]
            /\ UNCHANGED mu
    /\ calls' = <<>>
    /\ ret' = NoRet
    /\ pre' = NoPre
    /\ UNCHANGED << now, accessToken, refreshToken, cached, tokenIn, expiryOut,
                    granted, access, conf >>

\* mu is unlocked and the blocked goroutine p gets it
Wake(p) ==
    /\ callers[p].pc = "blocked"
    /\ MuFree
    /\ Enter(p, callers[p])
    /\ calls' = <<>>
    /\ ret' = NoRet
    /\ pre' = NoPre
    /\ UNCHANGED << now, accessToken, refreshToken, cached, invocations,
                    tokenIn, expiryOut, granted, access, conf >>

\* the goroutines once p, holding mu, has the outcome r of tokenSource.Token
\* after n requests
Completed(p, r, n) ==
    [q \in Callers |->
        IF q = p
        THEN [callers[q] EXCEPT !.pc = "done", !.got = Got(r.token, r.err),
                                !.ownCalls = n]
        ELSE IF callers[q].pc = "blocked"
        THEN [callers[q] EXCEPT !.awaited = Got(r.token, r.err)]
        ELSE callers[q]]

\* tokenSource.Token of goroutine p returns and p unlocks mu
Complete(p) ==
    /\ callers[p].pc = "inflight"
    /\ tokenSourceToken
    /\ mu' = Unlocked
    /\ pre' = [now |-> now, accessToken |-> accessToken,
               refreshToken |-> refreshToken, cached |-> cached]
    /\ granted' = IF ret'.err = NoErr
                  THEN calls'[Len(calls')].resp.Body.Data
                  ELSE granted
    /\ callers' = Completed(p, ret', Len(calls'))
    /\ UNCHANGED << now, invocations, tokenIn, expiryOut, access, conf >>

NextConc ==
    \/ \E p \in Callers : Arrive(p)
    \/ \E p \in Callers : Wake(p)
    \/ \E p \in Callers : Complete(p)
    \/ \E to \in Instants : Tick(to)

SpecConc == Init /\ [][NextConc]_vars

(***************************************************************************)
(* Resource Accessors.  Client.httpClient is oauth2.NewClient(ctx, the     *)
(* token source): its transport asks the token source for a Token before   *)
(* every request and sets the Authorization header from it.                *)
(***************************************************************************)
apiURLCountries == "api/Place/Countries"

\* fmt.Sprintf(apiURLCityDetail, c.Id)
apiURLCityDetail == "api/Place/CityDetail/%d"

\* the Id of a City
CityIds == {1, 2}

\* accessor, the URL it requests, the id it formats into the URL and the id
\* its errors name (0: none)
Accessors ==
    {[op |-> "GetCountries", url |-> apiURLCountries,
      requested |-> 0, named |-> 0]}
    \cup {[op |-> "GetCityDetail", url |-> apiURLCityDetail,
           requested |-> c, named |-> c] : c \in CityIds}

\* the bodies the service answers an accessor with: not JSON, an envelope
\* with success=false (one with a data member all the same), an envelope
\* with success=true
ApiBodies ==
    {[decodes |-> FALSE, Ok |-> FALSE, Error |-> "", Data |-> ZeroData],
     [decodes |-> TRUE, Ok |-> FALSE, Error |-> "invalid credentials",
      Data |-> ZeroData],
     [decodes |-> TRUE, Ok |-> FALSE, Error |-> "token expired",
      Data |-> "payload"],
     [decodes |-> TRUE, Ok |-> TRUE, Error |-> "", Data |-> "payload"]}

ApiResponses ==
    {[failed |-> TRUE, StatusCode |-> 0,
      Body |-> [decodes |-> FALSE, Ok |-> FALSE, Error |-> "",
                Data |-> ZeroData]]}
    \cup {[failed |-> FALSE, StatusCode |-> c, Body |-> b] :
             c \in {200, 401}, b \in ApiBodies}

\* (*oauth2.Token).SetAuthHeader
SetAuthHeader(token) ==
    [name |-> "Authorization", value |-> << "Bearer " >> \o token.AccessToken]

\* the accessor's return values: (zero value, error) or (data, nil)
Returned(a, kind, text, cause, data) ==
    [called |-> TRUE, op |-> a.op, sent |-> FALSE, url |-> "",
     requested |-> a.requested,
     named |-> IF kind = "nil" THEN 0 ELSE a.named,
     header |-> NoHeader, resp |-> NoResponse, data |-> data,
     err |-> Err(kind, a.op, text, 0), cause |-> cause]

\* variant: the data member is returned whatever the success flag says
AnsweredUnchecked(a, header, resp) ==
    [Returned(a, "nil", "", NoErr, resp.Body.Data)
        EXCEPT !.sent = TRUE, !.url = a.url, !.header = header,
               !.resp = resp, !.err = NoErr]

\* the accessor after httpClient.Get sent the request with this header
Answered(a, header, resp) ==
    [(IF resp.failed THEN Returned(a, "network", "", NoErr, ZeroData)
      ELSE IF ~resp.Body.decodes
      THEN Returned(a, "decode", "", NoErr, ZeroData)
      ELSE IF ~resp.Body.Ok
      THEN Returned(a, "api", resp.Body.Error, NoErr, ZeroData)
      ELSE [Returned(a, "nil", "", NoErr, resp.Body.Data)
               EXCEPT !.err = NoErr])
        EXCEPT !.sent = TRUE, !.url = a.url, !.header = header, !.resp = resp]

\* variant: the request is sent although the token source failed
RoundTripAnyway(a, r) ==
    \E resp \in ApiResponses :
        access' = Answered(a, SetAuthHeader(r.token), resp)

\* oauth2.Transport.RoundTrip with the outcome r of the token source: its
\* error ends httpClient.Get before anything is sent
RoundTrip(a, r) ==
    IF r.err # NoErr
    THEN access' = Returned(a, "network", "", r.err, ZeroData)
    ELSE \E resp \in ApiResponses :
            access' = Answered(a, SetAuthHeader(r.token), resp)

\* Client.GetCountries, City.GetCityDetail
Get(a) ==
    /\ ~access.called
    /\ reuseTokenSourceToken
    /\ RoundTrip(a, ret')

\* the caller has taken what the accessor returned
Handled ==
    /\ access.called
    /\ access' = NoAccess
    /\ calls' = <<>>
    /\ ret' = NoRet
    /\ pre' = NoPre
    /\ UNCHANGED << now, accessToken, refreshToken, cached, invocations,
                    tokenIn, expiryOut, concVars, conf >>

NextApi ==
    \/ \E a \in Accessors : Get(a)
    \/ Handled
    \/ \E to \in Instants : Tick(to)

SpecApi == Init /\ [][NextApi]_vars

(***************************************************************************)
(* The prayer-time accessors of a City c.  GetPrayerTimeDaily formats c.Id *)
(* into its URL; GetPrayerTimeWeekly, GetPrayerTimeMonthly and             *)
(* GetPrayerTimeRamadan format their argument cityID into it.  All four    *)
(* name c.Id in their errors.                                              *)
(***************************************************************************)
apiURLPrayerTime ==
    [GetPrayerTimeDaily   |-> "api/PrayerTime/Daily/%d",
     GetPrayerTimeWeekly  |-> "api/PrayerTime/Weekly/%d",
     GetPrayerTimeMonthly |-> "api/PrayerTime/Monthly/%d",
     GetPrayerTimeRamadan |-> "api/PrayerTime/Ramadan/%d"]

\* c.GetPrayerTimeDaily(timezone) and c.GetPrayerTimeWeekly(cityID, timezone),
\* Monthly and Ramadan alike, for every City c and argument cityID
PrayerAccessors ==
    {[op |-> "GetPrayerTimeDaily", url |-> apiURLPrayerTime[
          "GetPrayerTimeDaily"], requested |-> c, named |-> c] :
        c \in CityIds}
    \cup {[op |-> op, url |-> apiURLPrayerTime[op],
           requested |-> cityID, named |-> c] :
             op \in DOMAIN apiURLPrayerTime \ {"GetPrayerTimeDaily"},
             c \in CityIds, cityID \in CityIds}

NextPrayer ==
    \/ \E a \in PrayerAccessors : Get(a)
    \/ Handled
    \/ \E to \in Instants : Tick(to)

SpecPrayer == Init /\ [][NextPrayer]_vars

(***************************************************************************)
(* The fixed-delta token source: the expiry of a Token is the time it was  *)
(* obtained plus Config.AccessTokenExpiryDelta, the cache is               *)
(* oauth2.ReuseTokenSource(nil, source), and only the ticket is stored.    *)
(***************************************************************************)
\* values of Config.AccessTokenExpiryDelta, in seconds
Deltas == {0, 15, 0 - 5, 50 * Minute}

\* instants around the end of the default lifetime
DeltaInstants == {0, 20, 45 * Minute - defaultExpiryDelta, 45 * Minute}

\* the responses that tell the branches of the fixed-delta requestAccessToken
\* apart: no response, a non-2xx status over a good envelope, a body that
\* does not decode, an envelope with success=false, and good envelopes whose
\* access tokens carry different exp claims or none
DeltaResponses ==
    {r \in Responses :
        \/ r.failed
        \/ /\ r.StatusCode = 200
           /\ ~r.Body.Ok
           /\ r.Body.Data = NoData
           /\ r.Body.Error # "invalid credentials"
        \/ /\ r.StatusCode = 401
           /\ r.Body.Ok
           /\ r.Body.Data.AccessToken = MintToken(920)
        \/ /\ r.StatusCode = 200
           /\ r.Body.Ok
           /\ r.Body.Data.AccessToken \in
                  {MintToken(920), MintToken(1800), TokNoExp}}

\* variant: a zero delta is used as it is
accessTokenExpiryDeltaNoDefault(c) == c.AccessTokenExpiryDelta

\* Config.accessTokenExpiryDelta
accessTokenExpiryDelta(c) ==
    IF c.AccessTokenExpiryDelta = 0
    THEN 45 * Minute
    ELSE c.AccessTokenExpiryDelta

\* the Token made of the data of a response at instant at
GrantedDelta(data, at) ==
    Outcome([nil |-> FALSE, AccessToken |-> data.AccessToken,
             TokenType |-> "Bearer",
             Expiry |-> Add(Unix(at), accessTokenExpiryDelta(conf), 0),
             expiryDelta |-> 0],
            NoErr,
            [accessToken |-> <<>>, refreshToken |-> data.RefreshToken],
            TRUE)

\* tokenSource.requestAccessToken of the fixed-delta token source
requestAccessTokenDelta(store, url, resp, errorPrefix) ==
    IF ~URLParses(url)
    THEN Outcome(NilToken, Err("request", "", "", 0), store, FALSE)
    ELSE IF resp.failed
    THEN Outcome(NilToken, Err("network", errorPrefix, "", 0), store, TRUE)
    ELSE IF resp.StatusCode < 200 \/ resp.StatusCode >= 300
    THEN Outcome(NilToken, Err("status", errorPrefix, "", resp.StatusCode),
                 store, TRUE)
    ELSE IF ~resp.Body.decodes
    THEN Outcome(NilToken, Err("decode", errorPrefix, "", 0), store, TRUE)
    ELSE IF ~resp.Body.Ok
    THEN Outcome(NilToken, Err("api", errorPrefix, resp.Body.Error, 0),
                 store, TRUE)
    ELSE GrantedDelta(resp.Body.Data, now)

\* tokenSource.Token returns to reuseTokenSource.Token, which caches a token
ReturnDelta(r, cs) ==
    /\ calls' = cs
    /\ refreshToken' = r.store.refreshToken
    /\ ret' = [returned |-> TRUE, token |-> r.token, err |-> r.err]
    /\ cached' = IF r.err = NoErr THEN r.token ELSE cached

\* the outcome r of the request to url, answered with resp, joins the calls
\* cs; the error of a refresh is logged and the login follows
CalledDelta(method, url, header, resp, cs, r) ==
    IF method = "GET" /\ r.err # NoErr
    THEN \E again \in DeltaResponses :
            ReturnDelta(
                requestAccessTokenDelta(Store, apiURLLogin, again,
                                        retrieveTokenErrorPrefix),
                << CallRecord(method, url, header, resp, Store, r),
                   CallRecord("POST", apiURLLogin, LoginHeader, again, Store,
                              requestAccessTokenDelta(
                                  Store, apiURLLogin, again,
                                  retrieveTokenErrorPrefix)) >>)
    ELSE ReturnDelta(r, Append(cs, CallRecord(method, url, header, resp,
                                              Store, r)))

\* tokenSource.Token of the fixed-delta token source
tokenSourceTokenDelta ==
    IF refreshToken # ""
    THEN \E resp \in (IF URLParses(apiURLRefreshToken(refreshToken))
                      THEN DeltaResponses ELSE {NoResponse}) :
            CalledDelta("GET", apiURLRefreshToken(refreshToken), NoHeader,
                        resp, <<>>,
                        requestAccessTokenDelta(
                            Store, apiURLRefreshToken(refreshToken), resp,
                            refreshTokenErrorPrefix))
    ELSE \E resp \in DeltaResponses :
            CalledDelta("POST", apiURLLogin, LoginHeader, resp, <<>>,
                        requestAccessTokenDelta(Store, apiURLLogin, resp,
                                                retrieveTokenErrorPrefix))

\* the GetToken() of the fixed-delta token source
GetTokenDelta ==
    /\ pre' = [now |-> now, accessToken |-> accessToken,
               refreshToken |-> refreshToken, cached |-> cached]
    /\ invocations' = IF invocations < MaxInvocations
                      THEN invocations + 1 ELSE invocations
    /\ UNCHANGED << now, accessToken, tokenIn, expiryOut, concVars, access,
                    conf >>
    /\ IF Valid(cached, now)
       THEN /\ ret' = [returned |-> TRUE, token |-> cached, err |-> NoErr]
            /\ calls' = <<>>
            /\ UNCHANGED << refreshToken, cached >>
       ELSE tokenSourceTokenDelta

InitDelta ==
    /\ now = 0
    /\ accessToken = <<>>
    /\ refreshToken = ""
    /\ cached = NilToken
    /\ invocations = 0
    /\ calls = <<>>
    /\ ret = NoRet
    /\ pre = NoPre
    /\ tokenIn = NoInput
    /\ expiryOut = NoOutput
    /\ InitConc
    /\ access = NoAccess
    /\ conf \in {[AccessTokenExpiryDelta |-> x] : x \in Deltas}

NextDelta ==
    \/ GetTokenDelta
    \/ \E to \in DeltaInstants : Tick(to)

SpecDelta == InitDelta /\ [][NextDelta]_vars

(***************************************************************************)
(* Config.Token: c.TokenSource(ctx).Token().  Every call builds a token    *)
(* source of its own, asks it for one Token and drops it; the Config is    *)
(* reached through a pointer, so the login reads the credentials the       *)
(* Config holds at the time of the call.                                   *)
(***************************************************************************)
\* Email and Password of a Config
Credentials ==
    {[Email |-> "a@example.org", Password |-> "one"],
     [Email |-> "b@example.org", Password |-> "two"]}

ConfigOf(cr) ==
    [AccessTokenExpiryDelta |-> 0, Email |-> cr.Email,
     Password |-> cr.Password]

\* variant: Config.TokenSource hands out the state of the source in use
SharedSource == [store |-> Store, cached |-> cached]

\* the state of the source Config.TokenSource returns: &tokenSource{ctx, conf}
\* behind oauth2.ReuseTokenSourceWithExpiry(nil, ...)
NewSource ==
    [store |-> [accessToken |-> <<>>, refreshToken |-> ""],
     cached |-> NilToken]

\* the body of the login request
LoginBody == [email |-> conf.Email, password |-> conf.Password]

\* the Token and error of a source that is dropped after the call: what it
\* stored and cached goes with it
Dropped(r, cs) ==
    /\ calls' = cs
    /\ ret' = [returned |-> TRUE,
               token |-> IF r.err = NoErr
                         THEN [r.token EXCEPT !.expiryDelta = earlyExpiry]
                         ELSE NilToken,
               err |-> r.err]
    /\ UNCHANGED << accessToken, refreshToken, cached >>

DroppedLogin(store, cs, resp, l) ==
    Dropped(l, Append(cs, [body |-> LoginBody]
                          @@ CallRecord("POST", apiURLLogin, LoginHeader,
                                        resp, store, l)))

DroppedRefresh(store, url, resp, r) ==
    IF r.err = NoErr
    THEN Dropped(r, << CallRecord("GET", url, RefreshHeader(store), resp,
                                  store, r) >>)
    ELSE \E again \in Responses :
            DroppedLogin(r.store,
                         << CallRecord("GET", url, RefreshHeader(store), resp,
                                       store, r) >>,
                         again,
                         requestAccessToken(r.store, apiURLLogin, again,
                                            retrieveTokenErrorPrefix))

\* reuseTokenSource.Token and tokenSource.Token on a source in state src
TokenOn(src) ==
    IF Valid(src.cached, now)
    THEN /\ calls' = <<>>
         /\ ret' = [returned |-> TRUE, token |-> src.cached, err |-> NoErr]
         /\ UNCHANGED << accessToken, refreshToken, cached >>
    ELSE IF shouldRefresh(src.store, now)
    THEN \E resp \in (IF URLParses(apiURLRefreshToken(src.store.refreshToken))
                      THEN Responses ELSE {NoResponse}) :
            DroppedRefresh(src.store,
                           apiURLRefreshToken(src.store.refreshToken), resp,
                           requestAccessToken(
                               src.store,
                               apiURLRefreshToken(src.store.refreshToken),
                               resp, refreshTokenErrorPrefix))
    ELSE \E resp \in Responses :
            DroppedLogin(src.store, <<>>, resp,
                         requestAccessToken(src.store, apiURLLogin, resp,
                                            retrieveTokenErrorPrefix))

\* Config.Token
ConfigToken ==
    /\ access' = [NoAccess EXCEPT !.called = TRUE, !.op = "Config.Token"]
    /\ pre' = [now |-> now, accessToken |-> accessToken,
               refreshToken |-> refreshToken, cached |-> cached]
    /\ TokenOn(NewSource)
    /\ UNCHANGED << now, invocations, tokenIn, expiryOut, concVars, conf >>

\* GetToken() of the token source that is kept in use beside Config.Token
KeptToken ==
    /\ reuseTokenSourceToken
    /\ access' = NoAccess

\* the owner of the Config assigns its Email and Password
SetCredentials(cr) ==
    /\ cr.Email # conf.Email
    /\ conf' = ConfigOf(cr)
    /\ calls' = <<>>
    /\ ret' = NoRet
    /\ pre' = NoPre
    /\ access' = NoAccess
    /\ UNCHANGED << now, accessToken, refreshToken, cached, invocations,
                    tokenIn, expiryOut, concVars >>

InitConf ==
    /\ now = 0
    /\ accessToken = <<>>
    /\ refreshToken = ""
    /\ cached = NilToken
    /\ invocations = 0
    /\ calls = <<>>
    /\ ret = NoRet
    /\ pre = NoPre
    /\ tokenIn = NoInput
    /\ expiryOut = NoOutput
    /\ InitConc
    /\ access = NoAccess
    /\ conf \in {ConfigOf(cr) : cr \in Credentials}

NextConf ==
    \/ ConfigToken
    \/ KeptToken
    \/ \E cr \in Credentials : SetCredentials(cr)
    \/ \E to \in Instants : Tick(to)

SpecConf == InitConf /\ [][NextConf]_vars

(***************************************************************************)
(* getExpirationTime on its own, over TokenInputs                          *)
(***************************************************************************)
InitExp ==
    /\ now \in Instants
    /\ accessToken = <<>>
    /\ refreshToken = ""
    /\ cached = NilToken
    /\ invocations = 0
    /\ calls = <<>>
    /\ ret = NoRet
    /\ pre = NoPre
    /\ tokenIn \in TokenInputs
    /\ expiryOut = NoOutput
    /\ InitConc
    /\ access = NoAccess
    /\ conf = NoConfig

ComputeExpiry ==
    /\ ~expiryOut.done
    /\ expiryOut' = [done |-> TRUE, time |-> getExpirationTime(tokenIn.str)]
    /\ UNCHANGED << now, accessToken, refreshToken, cached, invocations,
                    calls, ret, pre, tokenIn, concVars, access, conf >>

NextExp == ComputeExpiry

SpecExp == InitExp /\ [][NextExp]_vars

(***************************************************************************)
(* Vocabulary of the properties                                            *)
(***************************************************************************)
\* an attempt that did not end in a 2xx response decoding with success=true
Failed(c) ==
    \/ ~c.sent
    \/ c.resp.failed
    \/ c.resp.StatusCode < 200
    \/ c.resp.StatusCode >= 300
    \/ ~c.resp.Body.decodes
    \/ ~c.resp.Body.Ok

\* the request could not be built, or client.Do returned an error
TransportFailure(c) == ~c.sent \/ c.resp.failed

NonSuccessStatus(c) ==
    /\ c.sent
    /\ ~c.resp.failed
    /\ c.resp.StatusCode < 200 \/ c.resp.StatusCode >= 300

LastCall == calls[Len(calls)]

RefreshCalls == {i \in DOMAIN calls : IsRefresh(calls[i])}
LoginCalls == {i \in DOMAIN calls : IsLogin(calls[i])}

\* the token's expiry is more than the refresh guard (10 s) after instant at
ExpiryWellAhead(tok, at) ==
    After(Add(tok.Expiry, 0 - refreshGuard, 0), Unix(at))

\* a GetToken has just returned that began with a ticket held and a cached
\* token inside its early-expiry margin or past its expiry
StaleWithTicket ==
    /\ ret.returned
    /\ pre.refreshToken # ""
    /\ ~pre.cached.nil
    /\ WithinMargin(pre.cached, pre.now)

\* a GetToken has just returned whose refresh attempt failed
RefreshFailed ==
    /\ ret.returned
    /\ calls # <<>>
    /\ IsRefresh(calls[1])
    /\ Failed(calls[1])

\* a GetToken has just returned a Token made from a response whose access
\* token was minted with exp claim T
GotMinted(T) ==
    /\ ret.returned
    /\ ret.err = NoErr
    /\ calls # <<>>
    /\ ~Failed(LastCall)
    /\ LastCall.resp.Body.Data.AccessToken = MintToken(T)

(***************************************************************************)
(* C1: a GetToken that begins with a cached Token not yet within the       *)
(* early-expiry margin of its expiry makes no login and no refresh call    *)
(* and returns that very Token, however often it is repeated.              *)
(***************************************************************************)
C1_CachedTokenReused ==
    (ret.returned /\ ~pre.cached.nil /\ ~WithinMargin(pre.cached, pre.now))
        => /\ calls = <<>>
           /\ ret.err = NoErr
           /\ ret.token = pre.cached
           /\ cached = pre.cached
           /\ accessToken = pre.accessToken
           /\ refreshToken = pre.refreshToken

\* a repeated GetToken served from the cache at the last instant before the
\* margin begins
C1_Witness ==
    /\ ret.returned
    /\ ~pre.cached.nil
    /\ Add(pre.cached.Expiry, 0 - earlyExpiry, 0) = Unix(pre.now)
    /\ invocations >= 3
    /\ calls = <<>>

(***************************************************************************)
(* C2: the first GetToken on a newly created token source makes exactly   *)
(* one login call and no refresh call.                                     *)
(***************************************************************************)
C2_FirstGetTokenLogsInOnce ==
    (ret.returned /\ invocations = 1)
        => /\ Len(calls) = 1
           /\ IsLogin(calls[1])
           /\ calls[1].method = "POST"
           /\ calls[1].sent
           /\ RefreshCalls = {}

\* the first GetToken, answered with a usable token
C2_Witness ==
    /\ ret.returned
    /\ invocations = 1
    /\ ret.err = NoErr
    /\ Valid(ret.token, now)
    /\ LoginCalls = {1}

(***************************************************************************)
(* C3 as claimed: a response whose access token carries {"exp": T} yields  *)
(* a Token whose expiry is earlier than T by at least earlyExpiry.         *)
(***************************************************************************)
C3_ExpiryBeforeClaim ==
    \A T \in ServerExps :
        GotMinted(T) => ~After(ret.token.Expiry, Unix(T - earlyExpiry))

(***************************************************************************)
(* C3 amended: such a response yields a Token whose expiry is exactly T;   *)
(* the margin travels with the Token as expiryDelta = earlyExpiry, so the  *)
(* Token is valid exactly up to T - earlyExpiry.                           *)
(***************************************************************************)
C3_ExpiryIsClaim ==
    \A T \in ServerExps :
        GotMinted(T)
            => /\ ret.token.AccessToken = MintToken(T)
               /\ ret.token.Expiry = Unix(T)
               /\ ret.token.expiryDelta = earlyExpiry
               /\ \A at \in Instants :
                      Valid(ret.token, at) <=> at + earlyExpiry <= T

\* a refresh answered with a minted token
C3_Witness ==
    /\ \E T \in ServerExps : GotMinted(T)
    /\ IsRefresh(LastCall)

(***************************************************************************)
(* C4 as claimed: with a ticket held and the cached Token within the       *)
(* margin or past its expiry, the next GetToken makes exactly one refresh  *)
(* call, before any login call.                                            *)
(***************************************************************************)
C4_RefreshWheneverStale ==
    StaleWithTicket
        => /\ calls # <<>>
           /\ IsRefresh(calls[1])
           /\ Cardinality(RefreshCalls) = 1

(***************************************************************************)
(* C4 amended: with a ticket held and the cached Token within the margin,  *)
(* the next GetToken makes exactly one refresh attempt, before any login   *)
(* call, if the Token's expiry is still more than 10 seconds ahead; if it  *)
(* is not, it makes no refresh attempt and goes straight to login.         *)
(***************************************************************************)
C4_RefreshWhileAhead ==
    StaleWithTicket
        => IF ExpiryWellAhead(pre.cached, pre.now)
           THEN /\ calls # <<>>
                /\ IsRefresh(calls[1])
                /\ calls[1].url.arg = pre.refreshToken
                /\ RefreshCalls = {1}
           ELSE /\ RefreshCalls = {}
                /\ LoginCalls = {1}

\* a refresh made one second before the guard closes
C4_Witness ==
    /\ StaleWithTicket
    /\ Add(pre.cached.Expiry, 0 - refreshGuard, 0) = Unix(pre.now + 1)
    /\ RefreshCalls = {1}
    /\ calls[1].sent

(***************************************************************************)
(* C5: when the refresh of a GetToken fails, for whatever reason, the same *)
(* GetToken makes exactly one login call and returns the login's outcome:  *)
(* its Token, or its error; the refresh error is not returned.             *)
(***************************************************************************)
C5_RefreshFailureFallsBackToLogin ==
    RefreshFailed
        => /\ Len(calls) = 2
           /\ LoginCalls = {2}
           /\ calls[2].sent
           /\ ret.err = calls[2].err
           /\ ret.err # calls[1].err
           /\ ret.err.prefix # refreshTokenErrorPrefix
           /\ IF Failed(calls[2])
              THEN ret.err # NoErr /\ ret.token.nil
              ELSE /\ ret.err = NoErr
                   /\ ~ret.token.nil
                   /\ ret.token.AccessToken = calls[2].resp.Body.Data.AccessToken

\* the refresh is rejected with 401 and success=false, and the login succeeds
C5_Witness ==
    /\ RefreshFailed
    /\ calls[1].resp.StatusCode = 401
    /\ calls[1].resp.Body.decodes
    /\ calls[1].resp.Body.Error = "token expired"
    /\ Len(calls) = 2
    /\ ~Failed(calls[2])
    /\ ret.err = NoErr

(***************************************************************************)
(* C6: after a failed refresh attempt the ticket held before it is no      *)
(* longer held: a successful follow-up login leaves the login's ticket, a  *)
(* failed one leaves none.                                                 *)
(***************************************************************************)
C6_TicketDiscardedAfterFailedRefresh ==
    RefreshFailed
        => /\ Len(calls) = 2
           /\ IF Failed(calls[2])
              THEN refreshToken = ""
              ELSE refreshToken = calls[2].resp.Body.Data.RefreshToken

(***************************************************************************)
(* C7: a failed login or refresh attempt leaves the stored access token    *)
(* and ticket as they were; they change only on a 2xx response that        *)
(* decodes with success=true, and then both are taken from that response.  *)
(***************************************************************************)
C7_FailedAttemptLeavesStore ==
    ret.returned
        => /\ \A i \in DOMAIN calls :
                IF Failed(calls[i])
                THEN calls[i].after = calls[i].before
                ELSE calls[i].after =
                        [accessToken  |-> calls[i].resp.Body.Data.AccessToken,
                         refreshToken |-> calls[i].resp.Body.Data.RefreshToken]
           /\ \A i \in DOMAIN calls :
                calls[i].before =
                    IF i = 1
                    THEN [accessToken |-> pre.accessToken,
                          refreshToken |-> pre.refreshToken]
                    ELSE calls[i - 1].after
           /\ calls # <<>> => Store = LastCall.after
           /\ calls = <<>> => Store = [accessToken |-> pre.accessToken,
                                       refreshToken |-> pre.refreshToken]

\* a refresh and a login both fail with a success=false envelope that has a
\* data member, and the ticket from before is still stored
C7_Witness ==
    /\ RefreshFailed
    /\ Len(calls) = 2
    /\ Failed(calls[2])
    /\ calls[2].resp.StatusCode = 200
    /\ calls[2].resp.Body.decodes
    /\ calls[2].resp.Body.Data.RefreshToken # ""
    /\ refreshToken = pre.refreshToken
    /\ accessToken = pre.accessToken

(***************************************************************************)
(* C8 as claimed: every malformed access token (no delimiter, one          *)
(* delimiter, middle segment not base64, payload not JSON, exp not         *)
(* numeric, no exp member) yields the sentinel past, which the cache       *)
(* treats as expired.                                                      *)
(***************************************************************************)
StructurallyMalformed ==
    {"nodelim", "onedelim", "notbase64", "notjson", "nonnumeric"}

\* a token with this expiry, as the reuse token source would hold it
AsCached(time) ==
    [nil |-> FALSE, AccessToken |-> tokenIn.str, TokenType |-> "Bearer",
     Expiry |-> time, expiryDelta |-> earlyExpiry]

C9_NonSuccessStatusError ==
    (ret.returned /\ calls # <<>> /\ IsLogin(LastCall) /\ NonSuccessStatus(LastCall))
        => /\ ret.token.nil
           /\ ret.err # NoErr
           /\ (LastCall.resp.Body.decodes /\ ~LastCall.resp.Body.Ok)
                => /\ ret.err.kind = "api"
                   /\ ret.err.text = LastCall.resp.Body.Error
           /\ ~LastCall.resp.Body.decodes
                => /\ ret.err.kind = "status"
                   /\ ret.err.code = LastCall.resp.StatusCode

\* a login rejected with 401 and the message "invalid credentials"
C9_Witness ==
    /\ ret.returned
    /\ calls # <<>>
    /\ IsLogin(LastCall)
    /\ NonSuccessStatus(LastCall)
    /\ LastCall.resp.Body.decodes
    /\ ret.err.text = "invalid credentials"

(***************************************************************************)
(* C10 as claimed: a transport failure of a login or of a refresh call is  *)
(* returned to the caller as an error and no further call follows it.      *)
(***************************************************************************)
C10_TransportFailureSurfaced ==
    ret.returned
        => \A i \in DOMAIN calls :
              TransportFailure(calls[i])
                  => /\ i = Len(calls)
                     /\ ret.err = calls[i].err
                     /\ ret.err # NoErr

(***************************************************************************)
(* C10 amended: a transport failure of a login call is returned to the     *)
(* caller as an error and no further call follows it; a transport failure  *)
(* of a refresh call is logged and followed by exactly one login call,     *)
(* whose outcome the caller receives.                                      *)
(***************************************************************************)
C10_LoginTransportFailureSurfaced ==
    ret.returned
        => \A i \in DOMAIN calls :
              TransportFailure(calls[i])
                  => IF IsLogin(calls[i])
                     THEN /\ i = Len(calls)
                          /\ ret.err = calls[i].err
                          /\ ret.err.kind = "network"
                          /\ ret.token.nil
                     ELSE /\ i = 1
                          /\ Len(calls) = 2
                          /\ LoginCalls = {2}
                          /\ ret.err = calls[2].err

\* the refresh request cannot be built and the login fails in the network
C10_Witness ==
    /\ ret.returned
    /\ Len(calls) = 2
    /\ ~calls[1].sent
    /\ calls[2].resp.failed
    /\ ret.err.kind = "network"

(***************************************************************************)
(* C11: one GetToken makes at most two requestAccessToken calls: at most   *)
(* one refresh and at most one login, the refresh first when both are      *)
(* made, and no call made twice, whatever the answers are.                 *)
(***************************************************************************)
C11_AtMostRefreshThenLogin ==
    ret.returned
        => /\ Len(calls) <= 2
           /\ Cardinality(RefreshCalls) <= 1
           /\ Cardinality(LoginCalls) <= 1
           /\ RefreshCalls \cup LoginCalls = DOMAIN calls
           /\ \A i \in LoginCalls : \A j \in RefreshCalls : j < i
           /\ \A i \in DOMAIN calls : \A j \in DOMAIN calls :
                 i # j => calls[i].url # calls[j].url

\* a refresh answered with a body that does not decode, then a login
\* answered with a 401
C11_Witness ==
    /\ ret.returned
    /\ Len(calls) = 2
    /\ IsRefresh(calls[1])
    /\ calls[1].sent
    /\ ~calls[1].resp.failed
    /\ ~calls[1].resp.Body.decodes
    /\ IsLogin(calls[2])
    /\ NonSuccessStatus(calls[2])
    /\ ret.err # NoErr

(***************************************************************************)
(* Vocabulary of the properties about goroutines                           *)
(***************************************************************************)
InFlight == {p \in Callers : callers[p].pc = "inflight"}

\* goroutines that arrived while another held mu and have their answer
Overlapped ==
    {p \in Callers : callers[p].pc = "done" /\ callers[p].overlapped}

(***************************************************************************)
(* C12 as claimed: at most one goroutine has tokenSource.Token in flight,  *)
(* and a goroutine that arrived while one was in flight makes no request   *)
(* of its own and gets the Token that one produced.                        *)
(***************************************************************************)
C12_OneInFlightOthersReuse ==
    /\ Cardinality(InFlight) <= 1
    /\ \A p \in Overlapped :
          /\ callers[p].ownCalls = 0
          /\ callers[p].got.ok
          /\ callers[p].awaited.ok
          /\ callers[p].got.token = callers[p].awaited.token

(***************************************************************************)
(* C12 amended: at most one goroutine has tokenSource.Token in flight.  A  *)
(* goroutine that arrived while one was in flight makes no request of its  *)
(* own and gets the Token that one produced if it produced a Token that    *)
(* is not within the early-expiry margin when the goroutine gets the lock; *)
(* if it failed, or its Token is within the margin by then, the goroutine  *)
(* makes its own requests, after the lock is released.                     *)
(***************************************************************************)
C12_OneInFlightOthersReuseValid ==
    /\ Cardinality(InFlight) <= 1
    /\ \A p \in InFlight : mu = p
    /\ \A p \in Overlapped :
          IF /\ callers[p].awaited.ok
             /\ callers[p].awaited.token.AccessToken # <<>>
             /\ ~WithinMargin(callers[p].awaited.token, callers[p].entered)
          THEN /\ callers[p].ownCalls = 0
               /\ callers[p].got.ok
               /\ callers[p].got.token = callers[p].awaited.token
          ELSE callers[p].ownCalls >= 1

\* a goroutine that waited for another's login has been handed its Token
C12_Witness ==
    \E p \in Overlapped :
        /\ callers[p].ownCalls = 0
        /\ callers[p].got.ok
        /\ callers[p].got.token = callers[p].awaited.token
        /\ Valid(callers[p].got.token, now)
        /\ \E q \in Callers \ {p} : callers[q].got = callers[p].got

(***************************************************************************)
(* C13: however the goroutines interleave, the stored access token and     *)
(* the stored ticket are those of one response, the last one tokens were   *)
(* taken from, and the cached Token carries that same access token.        *)
(***************************************************************************)
C13_StoreFromOneResponse ==
    /\ accessToken = granted.AccessToken
    /\ refreshToken = granted.RefreshToken
    /\ ~cached.nil => cached.AccessToken = granted.AccessToken
    /\ (ret.returned /\ ret.err = NoErr)
          => /\ cached = ret.token
             /\ ret.token.AccessToken = granted.AccessToken

\* two goroutines have each taken tokens from a response, the later one
\* replacing both stored fields
C13_Witness ==
    /\ granted.RefreshToken = "r2"
    /\ refreshToken = "r2"
    /\ accessToken = MintToken(1800)
    /\ \E p \in Callers : \E q \in Callers \ {p} :
          /\ callers[p].pc = "done" /\ callers[q].pc = "done"
          /\ callers[p].ownCalls > 0 /\ callers[q].ownCalls > 0
          /\ callers[p].got.ok /\ callers[q].got.ok
          /\ callers[p].got.token.AccessToken = MintToken(920)
          /\ callers[q].got.token = cached

(***************************************************************************)
(* C14: a goroutine that calls GetToken while the cached Token is not      *)
(* within the early-expiry margin is never blocked on mu behind another    *)
(* goroutine's requests and makes no request itself: it is handed the      *)
(* cached Token in the step in which it locks mu.                          *)
(***************************************************************************)
C14_ValidReadNeverWaits ==
    \A p \in Callers :
        callers[p].sawValid
            => /\ callers[p].pc = "done"
               /\ ~callers[p].overlapped
               /\ callers[p].ownCalls = 0
               /\ callers[p].got.ok
               /\ Fresh(callers[p].got.token, callers[p].entered)

\* a goroutine is handed the cached Token at the last instant before the
\* margin begins, after another goroutine obtained it
C14_Witness ==
    \E p \in Callers : \E q \in Callers \ {p} :
        /\ callers[p].sawValid
        /\ callers[p].pc = "done"
        /\ callers[p].got.token = cached
        /\ Add(cached.Expiry, 0 - earlyExpiry, 0) = Unix(callers[p].entered)
        /\ callers[q].pc = "done"
        /\ callers[q].ownCalls > 0
        /\ callers[q].got.token = cached

(***************************************************************************)
(* C15: a GetToken that begins with nothing cached and nothing stored      *)
(* begins with a login and makes no refresh call; if the login fails its   *)
(* error is returned, and still nothing is cached and nothing stored.      *)
(***************************************************************************)
Absent(c, store) ==
    c.nil /\ store.accessToken = <<>> /\ store.refreshToken = ""

C15_FailedLoginStaysAbsent ==
    (ret.returned /\ Absent(pre.cached, pre))
        => /\ Len(calls) = 1
           /\ LoginCalls = {1}
           /\ Failed(calls[1])
                => /\ ret.err # NoErr
                   /\ ret.err = calls[1].err
                   /\ ret.token.nil
                   /\ Absent(cached, Store)

\* the second GetToken in a row whose login is answered with success=false
\* and a data member all the same
C15_Witness ==
    /\ ret.returned
    /\ invocations >= 2
    /\ Absent(pre.cached, pre)
    /\ calls[1].resp.StatusCode = 200
    /\ calls[1].resp.Body.decodes
    /\ ~calls[1].resp.Body.Ok
    /\ calls[1].resp.Body.Data.RefreshToken # ""
    /\ Absent(cached, Store)

(***************************************************************************)
(* C16 as claimed: a GetToken can be made in every reachable state, and    *)
(* one whose login is answered with a well-formed token whose exp claim is *)
(* still ahead leaves the cache valid, so that a GetToken following it at  *)
(* once is served from the cache.                                          *)
(***************************************************************************)
\* a GetToken has just returned whose login was answered with a token
\* minted with an exp claim at least ahead seconds after now
LoggedInAhead(ahead) ==
    /\ ret.returned
    /\ calls # <<>>
    /\ IsLogin(LastCall)
    /\ ~Failed(LastCall)
    /\ \E T \in ServerExps :
          /\ LastCall.resp.Body.Data.AccessToken = MintToken(T)
          /\ T >= now + ahead

ServedFromCache ==
    /\ ret'.returned
    /\ ret'.err = NoErr
    /\ ret'.token = cached
    /\ calls' = <<>>
    /\ cached' = cached

C16_UnexpiredLoginLeavesValid ==
    /\ [](ENABLED GetToken)
    /\ [](LoggedInAhead(1) => (ret.err = NoErr /\ Fresh(cached, now)))
    /\ [][(LoggedInAhead(1) /\ ret'.returned) => ServedFromCache]_vars

(***************************************************************************)
(* C16 amended: a GetToken can be made in every reachable state, and one   *)
(* whose login is answered with a well-formed token whose exp claim is at  *)
(* least earlyExpiry (15 minutes) ahead leaves the cache valid, so that a  *)
(* GetToken following it at once is served from the cache.                 *)
(***************************************************************************)
C16_LoginBeyondMarginLeavesValid ==
    /\ [](ENABLED GetToken)
    /\ [](LoggedInAhead(earlyExpiry)
            => (ret.err = NoErr /\ cached = ret.token /\ Fresh(cached, now)))
    /\ [][(LoggedInAhead(earlyExpiry) /\ ret'.returned) => ServedFromCache]_vars

\* after an earlier failure, a login is answered with a token whose exp
\* claim is exactly earlyExpiry ahead
C16_Witness ==
    /\ LoggedInAhead(earlyExpiry)
    /\ ~LoggedInAhead(earlyExpiry + 1)
    /\ now > 0
    /\ invocations >= 2
    /\ cached = ret.token

(***************************************************************************)
(* C20: the first call of a GetToken is a refresh exactly when an access   *)
(* token and a ticket are stored and the exp claim of the stored access    *)
(* token is more than 10 seconds ahead; the refresh then has the stored    *)
(* ticket in its path and the stored access token as its bearer.  In every *)
(* other state the only call is a login.                                   *)
(***************************************************************************)
RefreshDue ==
    /\ pre.refreshToken # ""
    /\ \E T \in ServerExps :
          /\ pre.accessToken = MintToken(T)
          /\ T - refreshGuard > pre.now

C20_RefreshOnlyWhenGuardHolds ==
    (ret.returned /\ calls # <<>>)
        => IF RefreshDue
           THEN /\ RefreshCalls = {1}
                /\ calls[1].method = "GET"
                /\ calls[1].url = apiURLRefreshToken(pre.refreshToken)
                /\ calls[1].header.name = "Authorization"
                /\ calls[1].header.value = << "Bearer " >> \o pre.accessToken
           ELSE /\ RefreshCalls = {}
                /\ Len(calls) = 1
                /\ LoginCalls = {1}

\* a refresh sent one second before the guard closes
C20_Witness ==
    /\ ret.returned
    /\ RefreshDue
    /\ pre.accessToken = MintToken(pre.now + refreshGuard + 1)
    /\ calls[1].sent
    /\ calls[1].url.arg = "r1"

(***************************************************************************)
(* C17: every Resource Accessor call asks the token source for a Token     *)
(* first; its request goes out with Authorization: Bearer and the access   *)
(* token of the Token returned; if the token source fails, nothing is sent *)
(* and the accessor returns an error.                                      *)
(***************************************************************************)
C17_RequestCarriesReturnedToken ==
    access.called
        => /\ ret.returned
           /\ IF ret.err # NoErr
              THEN /\ ~access.sent
                   /\ access.err # NoErr
                   /\ access.cause = ret.err
                   /\ access.data = ZeroData
              ELSE /\ access.sent
                   /\ access.url \in {a.url : a \in Accessors}
                   /\ access.header.name = "Authorization"
                   /\ access.header.value
                         = << "Bearer " >> \o ret.token.AccessToken
                   /\ ret.token.AccessToken = accessToken

\* an accessor's request carries the token a refresh has just brought
C17_Witness ==
    /\ access.called
    /\ access.sent
    /\ calls # <<>>
    /\ IsRefresh(LastCall)
    /\ access.header.value = << "Bearer " >> \o MintToken(1800)
    /\ access.err = NoErr
    /\ access.data # ZeroData

(***************************************************************************)
(* C18: whenever a login, a refresh or an accessor is answered with an     *)
(* envelope that decodes with success=false, the call yields an error      *)
(* carrying the envelope's message and its data member is dropped: no      *)
(* Token, the stored fields as before, the accessor's zero value.          *)
(***************************************************************************)
Rejected(resp) == ~resp.failed /\ resp.Body.decodes /\ ~resp.Body.Ok

C18_RejectedEnvelopeDataUnused ==
    /\ \A i \in DOMAIN calls :
          (calls[i].sent /\ Rejected(calls[i].resp))
              => /\ calls[i].err.kind = "api"
                 /\ calls[i].err.text = calls[i].resp.Body.Error
                 /\ calls[i].token.nil
                 /\ calls[i].after = calls[i].before
    /\ (access.called /\ access.sent /\ Rejected(access.resp))
          => /\ access.err.kind = "api"
             /\ access.err.text = access.resp.Body.Error
             /\ access.err.prefix = access.op
             /\ access.data = ZeroData

\* a refresh and an accessor in one call are both answered with success=false
\* and a data member all the same
C18_Witness ==
    /\ access.called
    /\ access.sent
    /\ Rejected(access.resp)
    /\ access.resp.Body.Data # ZeroData
    /\ access.data = ZeroData
    /\ Len(calls) = 2
    /\ Rejected(calls[1].resp)
    /\ calls[1].resp.Body.Data # NoData
    /\ calls[1].resp.StatusCode = 200

MalformedGrants == {TokOneDot, TokNoExp}

C21_MalformedTokenForcesLogin ==
    ret.returned
        => /\ ( /\ calls # <<>>
                /\ IsLogin(LastCall)
                /\ LastCall.err = NoErr
                /\ LastCall.resp.Body.Data.AccessToken \in MalformedGrants )
                => /\ ret.err = NoErr
                   /\ ~ret.token.nil
                   /\ ret.token.AccessToken =
                          LastCall.resp.Body.Data.AccessToken
                   /\ ret.token.Expiry \in {past, Unix(0)}
                   /\ cached = ret.token
                   /\ accessToken = ret.token.AccessToken
           /\ ( /\ ~pre.cached.nil
                /\ pre.cached.AccessToken \in MalformedGrants )
                => /\ Len(calls) = 1
                   /\ IsLogin(calls[1])
                   /\ calls[1].sent
                   /\ RefreshCalls = {}

\* the first GetToken() logged in and got a token with one delimiter and a
\* ticket; the second one, a moment later, logs in again and succeeds
C21_Witness ==
    /\ ret.returned
    /\ invocations = 2
    /\ pre.cached.AccessToken = TokOneDot
    /\ pre.cached.Expiry = past
    /\ pre.refreshToken = "r1"
    /\ pre.now = 0
    /\ LoginCalls = {1}
    /\ RefreshCalls = {}
    /\ ret.err = NoErr

(***************************************************************************)
(* C22: every error of a prayer-time accessor of a City names the city id  *)
(* that was formatted into the URL of the request, whatever the receiver   *)
(* and the arguments.                                                      *)
(***************************************************************************)
C22_ErrorNamesRequestedCity ==
    (access.called /\ access.err # NoErr)
        => access.named = access.requested

(***************************************************************************)
(* C23: every Config.Token call makes exactly one login call, with the     *)
(* Email and Password the Config holds at that time, on a source of its    *)
(* own: no refresh call and no cached Token, however many Tokens were      *)
(* obtained from the Config before; and the cached Token and the Refresh   *)
(* Ticket of the source in use are neither read nor changed by it.         *)
(***************************************************************************)
C23_ConfigTokenAlwaysLogsIn ==
    access.op = "Config.Token"
        => /\ ret.returned
           /\ Len(calls) = 1
           /\ IsLogin(calls[1])
           /\ calls[1].method = "POST"
           /\ calls[1].sent
           /\ calls[1].body = [email |-> conf.Email, password |-> conf.Password]
           /\ calls[1].before = [accessToken |-> <<>>, refreshToken |-> ""]
           /\ ret.err = calls[1].err
           /\ ret.err = NoErr
                => ret.token.AccessToken = calls[1].resp.Body.Data.AccessToken
           /\ accessToken = pre.accessToken
           /\ refreshToken = pre.refreshToken
           /\ cached = pre.cached

\* the source in use holds a Valid Token and a ticket, the credentials have
\* been changed, and Config.Token logs in with the new ones and gets
\* another token
C23_Witness ==
    /\ access.op = "Config.Token"
    /\ Valid(cached, now)
    /\ cached.AccessToken = MintToken(920)
    /\ refreshToken = "r1"
    /\ invocations >= 1
    /\ conf.Email = "b@example.org"
    /\ calls[1].body.password = "two"
    /\ ret.err = NoErr
    /\ ret.token.AccessToken = MintToken(1800)

TypeOK ==
    /\ now \in Instants
    /\ invocations \in 0..MaxInvocations
    /\ Len(calls) <= 2

====
